---- MODULE Spec2Model ----
(***************************************************************************)
(* Video analysis: the landmark heuristics (app/emotion_detection.py,      *)
(* app/activity_recognition.py), the anomaly rules and the session report  *)
(* (main_report.py: VideoAnalysisReport, VideoAnalyzer).                   *)
(*                                                                         *)
(* Landmark coordinates are normalised floats in the source.  They are     *)
(* modelled in fixed point: face coordinates in units of 0.01, pose        *)
(* coordinates in units of 0.05.  Landmarks are drawn from the even        *)
(* multiples of the unit, so that the average of two of them is exact.     *)
(* Python's None is the string "None".                                     *)
(***************************************************************************)
EXTENDS Integers, Sequences, FiniteSets, TLC

\* ------------------------------------------------------------------ bounds
\* face landmarks range over {0, 0.02, ..., 0.02 * MaxFaceK}
MaxFaceK == 4
\* pose landmarks range over {0, 0.1, ..., 0.1 * MaxPoseK}
MaxPoseK == 4
\* detectar_anomalias is called for the frames 1..MaxFrameNumero
MaxFrameNumero == 250
\* with 0..MaxFaces faces in a frame
MaxFaces == 4
\* a report session makes at most MaxWrites calls of registrar_frame and
\* registrar_anomalia together
MaxWrites == 4
\* the clock runs over 0..MaxTime
MaxTime == 1
\* the video source of process_video delivers at most MaxVideoFrames frames
MaxVideoFrames == 4

\* ------------------------------------------------------- program constants
\* emotion_detection.py:61,63,65: 0.02, 0.04, 0.06 in units of 0.01
NeutroLimit == 2
FelizLimit == 4
SurpresoLimit == 6
\* activity_recognition.py:70,80,82: 0.1, 0.2, 0.25 in units of 0.05
RaiseMargin == 2
SittingLimit == 4
StandingLimit == 5
\* main_report.py:236: more than 3 faces is an anomaly
MaxFacesNormal == 3
\* main_report.py:253: an unknown activity is reported every 100 frames
ThrottleEvery == 100

None == "None"
\* main_report.py:42: fim_analise = None, among the clock's values
NoneTime == -1
\* what a renderer that has not been called has returned
NoReturn == [formato |-> None]
\* no exception has been raised
NoError == [tipo |-> None, origem |-> None]

VARIABLES
    face_lm,     \* the facial landmarks given to analyze_emotion (y only)
    emotion,     \* what analyze_emotion returned ("None": not called yet)
    pose_lm,     \* the pose landmarks given to analyze_activity (y only)
    activity,    \* what analyze_activity returned ("None": not called yet)
    frame_numero,  \* detectar_anomalias: the frame number of the last call
    frame_info,    \* detectar_anomalias: the frame_info of the last call
    ret,           \* detectar_anomalias: the list the last call returned
    run_clean,     \* history: every call so far had an unknown activity and
                   \* neither more than 3 faces nor a negative emotion
    unid_frames,   \* history: the 'frame' of every 'Atividade Nao
                   \* Identificada' record returned so far, in order
    report,        \* the VideoAnalysisReport object (its fields)
    now,           \* the clock datetime.now() reads
    saida,         \* what the renderer called last returned, NoReturn
                   \* once the report has been written to since
    n_calls,       \* history: the registrar_frame calls made
    n_face_calls,  \* history: those of them with a face
    n_emocao,      \* history: those of them with an emotion label
    n_atividade,   \* history: those of them with an activity label
    pc,            \* process_video: where the call stands
    gerar_relatorio,  \* process_video: its argument
    frame_count,   \* process_video: the frame counter
    detectado,     \* process_video: what the three modules saw in the
                   \* current frame (they draw it on the frame)
    arquivos,      \* the report files written by salvar_relatorio
    fonte,         \* process_video: the video source, what each read finds
    lidos,         \* process_video: the cap.read() calls made
    erro,          \* process_video: the exception raised, NoError if none
    processados    \* process_video: the modules that have processed the
                   \* current frame

clsVars == <<face_lm, emotion, pose_lm, activity>>
detVars == <<frame_numero, frame_info, ret, run_clean, unid_frames>>
repVars == <<report, now, saida>>
histVars == <<n_calls, n_face_calls, n_emocao, n_atividade>>
vidVars == <<pc, gerar_relatorio, frame_count, detectado, arquivos, fonte, lidos,
            erro, processados>>
vars == <<clsVars, detVars, repVars, histVars, vidVars>>

Abs(x) == IF x < 0 THEN -x ELSE x

\* ------------------------------------------------------ EmotionClassifier
FaceYs == {2 * k : k \in 0..MaxFaceK}
FaceLandmarks == [mouth_left : FaceYs, mouth_right : FaceYs, nose_tip : FaceYs]
NoFace == [mouth_left |-> 0, mouth_right |-> 0, nose_tip |-> 0]

\* emotion_detection.py:57-58
mouth_height(landmarks) ==
    LET mouth_y == (landmarks.mouth_left + landmarks.mouth_right) \div 2
    IN  Abs(mouth_y - landmarks.nose_tip)

\* the classification with each band closed at its upper end
analyze_emotion_closed(landmarks) ==
    LET h == mouth_height(landmarks)
    IN  IF h <= NeutroLimit THEN "Neutro"
        ELSE IF h <= FelizLimit THEN "Feliz"
        ELSE IF h <= SurpresoLimit THEN "Surpreso"
        ELSE "Triste"

\* emotion_detection.py:30-68
analyze_emotion(landmarks) ==
    LET h == mouth_height(landmarks)
    IN  IF h < NeutroLimit THEN "Neutro"
        ELSE IF h < FelizLimit THEN "Feliz"
        ELSE IF h < SurpresoLimit THEN "Surpreso"
        ELSE "Triste"

\* ----------------------------------------------------- ActivityClassifier
PoseYs == {2 * k : k \in 0..MaxPoseK}
PoseLandmarks ==
    [nose : PoseYs, left_shoulder : PoseYs, right_shoulder : PoseYs,
     left_hip : PoseYs, right_hip : PoseYs,
     left_wrist : PoseYs, right_wrist : PoseYs]
NoPose ==
    [nose |-> 0, left_shoulder |-> 0, right_shoulder |-> 0, left_hip |-> 0,
     right_hip |-> 0, left_wrist |-> 0, right_wrist |-> 0]

\* activity_recognition.py:66
shoulder_y(landmarks) ==
    (landmarks.left_shoulder + landmarks.right_shoulder) \div 2
\* activity_recognition.py:67
hip_y(landmarks) == (landmarks.left_hip + landmarks.right_hip) \div 2
\* activity_recognition.py:78
torso_length(landmarks) == Abs(shoulder_y(landmarks) - hip_y(landmarks))

\* the hand test with the two results exchanged
hand_activity_swapped(landmarks) ==
    IF landmarks.left_wrist < landmarks.nose
       \/ landmarks.right_wrist < landmarks.nose
    THEN "raising_hand"
    ELSE "waving"

\* activity_recognition.py:72-75
hand_activity(landmarks) ==
    IF landmarks.left_wrist < landmarks.nose
       \/ landmarks.right_wrist < landmarks.nose
    THEN "waving"
    ELSE "raising_hand"

\* the torso test with the dead zone's endpoints given to its neighbours
torso_activity_open(landmarks) ==
    IF torso_length(landmarks) <= SittingLimit THEN "sitting"
    ELSE IF torso_length(landmarks) >= StandingLimit THEN "standing"
    ELSE "unknown"

\* activity_recognition.py:80-85
torso_activity(landmarks) ==
    IF torso_length(landmarks) < SittingLimit THEN "sitting"
    ELSE IF torso_length(landmarks) > StandingLimit THEN "standing"
    ELSE "unknown"

\* activity_recognition.py:34-85
analyze_activity(landmarks) ==
    IF landmarks.left_wrist < shoulder_y(landmarks) - RaiseMargin
       \/ landmarks.right_wrist < shoulder_y(landmarks) - RaiseMargin
    THEN hand_activity(landmarks)
    ELSE torso_activity(landmarks)

\* ------------------------------------------------------- AnomalyDetector
\* The source's labels 'Múltiplas Faces', 'Emoção Negativa' and 'Atividade
\* Não Identificada' are written without their accents.  A formatted
\* description is the tuple of its parts.

\* main_report.py:293-297
frame_info_default == [num_faces |-> 0, emocao |-> None, atividade |-> None]

\* main_report.py:244
EmocoesNegativas == {"Triste", "Raiva"}
\* main_report.py:252
AtividadesDesconhecidas == {"unknown", "Desconhecido"}

\* the face rule firing from 3 faces on
regra_faces_from3(info, numero) ==
    IF info.num_faces >= MaxFacesNormal
    THEN << [tipo |-> "Multiplas Faces",
             descricao |-> <<info.num_faces, "faces detectadas simultaneamente">>,
             frame |-> numero] >>
    ELSE << >>

\* main_report.py:235-241
regra_faces(info, numero) ==
    IF info.num_faces > MaxFacesNormal
    THEN << [tipo |-> "Multiplas Faces",
             descricao |-> <<info.num_faces, "faces detectadas simultaneamente">>,
             frame |-> numero] >>
    ELSE << >>

\* main_report.py:243-249
regra_emocao(info, numero) ==
    IF info.emocao \in EmocoesNegativas
    THEN << [tipo |-> "Emocao Negativa",
             descricao |-> <<"Emocao", info.emocao, "detectada">>,
             frame |-> numero] >>
    ELSE << >>

\* the activity rule without its throttle
regra_atividade_every_frame(info, numero) ==
    IF info.atividade \in AtividadesDesconhecidas
    THEN << [tipo |-> "Atividade Nao Identificada",
             descricao |-> <<"Nao foi possivel identificar a atividade">>,
             frame |-> numero] >>
    ELSE << >>

\* main_report.py:251-258
regra_atividade(info, numero) ==
    IF info.atividade \in AtividadesDesconhecidas
       /\ numero % ThrottleEvery = 0
    THEN << [tipo |-> "Atividade Nao Identificada",
             descricao |-> <<"Nao foi possivel identificar a atividade">>,
             frame |-> numero] >>
    ELSE << >>

\* main_report.py:228-260
detectar_anomalias(info, numero) ==
    regra_faces(info, numero) \o regra_emocao(info, numero)
        \o regra_atividade(info, numero)

\* ------------------------------------------------------ VideoAnalysisReport
\* Python truthiness of a label or None (main_report.py:51,54)
Truthy(v) == v \notin {None, ""}

\* main_report.py:34-42
VideoAnalysisReport(agora) ==
    [total_frames |-> 0,
     frames_com_faces |-> 0,
     emocoes_detectadas |-> << >>,
     atividades_detectadas |-> << >>,
     anomalias |-> << >>,
     inicio_analise |-> agora,
     fim_analise |-> NoneTime]

\* registrar_frame appending the labels without testing them
registrar_frame_unguarded(r, tem_face, emocao, atividade) ==
    [r EXCEPT
        !.total_frames = @ + 1,
        !.frames_com_faces = IF tem_face THEN @ + 1 ELSE @,
        !.emocoes_detectadas = Append(@, emocao),
        !.atividades_detectadas = Append(@, atividade)]

\* registrar_frame counting a frame only when it has a face
registrar_frame_faces_only(r, tem_face, emocao, atividade) ==
    [r EXCEPT
        !.total_frames = IF tem_face THEN @ + 1 ELSE @,
        !.frames_com_faces = IF tem_face THEN @ + 1 ELSE @,
        !.emocoes_detectadas = IF Truthy(emocao) THEN Append(@, emocao) ELSE @,
        !.atividades_detectadas =
            IF Truthy(atividade) THEN Append(@, atividade) ELSE @]

\* main_report.py:44-55
registrar_frame(r, tem_face, emocao, atividade) ==
    [r EXCEPT
        !.total_frames = @ + 1,
        !.frames_com_faces = IF tem_face THEN @ + 1 ELSE @,
        !.emocoes_detectadas = IF Truthy(emocao) THEN Append(@, emocao) ELSE @,
        !.atividades_detectadas =
            IF Truthy(atividade) THEN Append(@, atividade) ELSE @]

\* registrar_anomalia putting the record at the head of the log
registrar_anomalia_at_head(r, tipo, descricao, numero, agora) ==
    [r EXCEPT !.anomalias =
        << [tipo |-> tipo, descricao |-> descricao, frame |-> numero,
            timestamp |-> agora] >> \o @]

\* main_report.py:57-64
registrar_anomalia(r, tipo, descricao, numero, agora) ==
    [r EXCEPT !.anomalias =
        Append(@, [tipo |-> tipo, descricao |-> descricao, frame |-> numero,
                   timestamp |-> agora])]

\* finalizar leaving the end time unset
finalizar_skipped(r, agora) == r

\* main_report.py:66-68
finalizar(r, agora) == [r EXCEPT !.fim_analise = agora]

\* collections.Counter(lista): the labels in first-seen order, each with its
\* count (main_report.py:75-76, 165-166)
RECURSIVE Counter(_)
Counter(lista) ==
    IF lista = << >> THEN << >>
    ELSE LET rest == Counter(SubSeq(lista, 1, Len(lista) - 1))
             x == lista[Len(lista)]
             seen == {i \in 1..Len(rest) : rest[i].label = x}
         IN  IF seen = {}
             THEN Append(rest, [label |-> x, count |-> 1])
             ELSE [i \in 1..Len(rest) |->
                     IF i \in seen
                     THEN [label |-> x, count |-> rest[i].count + 1]
                     ELSE rest[i]]

\* dict(counter) (main_report.py:181, 186)
dict(counter) ==
    [l \in {counter[i].label : i \in 1..Len(counter)} |->
        (CHOOSE e \in {counter[i] : i \in 1..Len(counter)} : e.label = l).count]

\* most_common putting, among equal counts, the label seen last first
RECURSIVE most_common_ties_last(_)
most_common_ties_last(counter) ==
    IF counter = << >> THEN << >>
    ELSE LET top == CHOOSE i \in 1..Len(counter) :
                        /\ \A j \in 1..Len(counter) :
                               counter[j].count <= counter[i].count
                        /\ \A j \in (i + 1)..Len(counter) :
                               counter[j].count < counter[i].count
         IN  <<counter[top]>> \o
             most_common_ties_last(SubSeq(counter, 1, top - 1)
                            \o SubSeq(counter, top + 1, Len(counter)))

\* Counter.most_common(): by descending count, equal counts in first-seen
\* order (a stable sort) (main_report.py:108, 126)
RECURSIVE most_common(_)
most_common(counter) ==
    IF counter = << >> THEN << >>
    ELSE LET top == CHOOSE i \in 1..Len(counter) :
                        /\ \A j \in 1..Len(counter) :
                               counter[j].count <= counter[i].count
                        /\ \A j \in 1..(i - 1) :
                               counter[j].count < counter[i].count
         IN  <<counter[top]>> \o
             most_common(SubSeq(counter, 1, top - 1)
                            \o SubSeq(counter, top + 1, Len(counter)))

\* counter.most_common(1)[0][0] if counter else None (main_report.py:182, 187)
predominante(counter) ==
    IF counter = << >> THEN None ELSE most_common(counter)[1].label

\* n / d rounded to an integer, halves to the even neighbour: round(x, 2) and
\* the formats .2f and .1f
Round(n, d) ==
    LET q == n \div d
        r == n % d
    IN  IF 2 * r < d THEN q
        ELSE IF 2 * r > d THEN q + 1
        ELSE IF q % 2 = 0 THEN q ELSE q + 1

\* the detection percentage computed without testing total_frames
percentual_deteccao_unguarded(r) ==
    IF r.total_frames = 0 THEN [erro |-> "ZeroDivisionError", valor |-> 0]
    ELSE [erro |-> None,
          valor |-> Round(r.frames_com_faces * 10000, r.total_frames)]

\* main_report.py:97, 177: the detection percentage in hundredths of a
\* percent; erro is the exception the expression raises, if any
percentual_deteccao(r) ==
    IF r.total_frames > 0
    THEN [erro |-> None,
          valor |-> Round(r.frames_com_faces * 10000, r.total_frames)]
    ELSE [erro |-> None, valor |-> 0]

\* main_report.py:179-188: the emocoes and atividades groups
grupo_json(lista) ==
    [total_registros |-> Len(lista),
     distribuicao |-> dict(Counter(lista)),
     predominante |-> predominante(Counter(lista))]

\* main_report.py:160-195: raises TypeError before finalizar (fim_analise
\* is None); erro is the exception raised, if any
gerar_relatorio_json(r) ==
    IF r.fim_analise = NoneTime THEN [formato |-> "json", erro |-> "TypeError"]
    ELSE IF percentual_deteccao(r).erro # None
    THEN [formato |-> "json", erro |-> percentual_deteccao(r).erro]
    ELSE [formato |-> "json",
          erro |-> None,
          informacoes_gerais |->
             [data_analise |-> r.inicio_analise,
              duracao_analise_segundos |-> r.fim_analise - r.inicio_analise],
          estatisticas_frames |->
             [total_frames_analisados |-> r.total_frames,
              frames_com_faces |-> r.frames_com_faces,
              percentual_deteccao |-> percentual_deteccao(r).valor],
          emocoes |-> grupo_json(r.emocoes_detectadas),
          atividades |-> grupo_json(r.atividades_detectadas),
          anomalias |->
             [numero_anomalias |-> Len(r.anomalias),
              detalhes |-> r.anomalias]]

\* main_report.py:104-116, 122-134: a label section of the text report; the
\* percentage of a line is in tenths of a percent (format 5.1f) and barra is
\* the length of its bar
grupo_texto(lista, nenhuma) ==
    IF Counter(lista) # << >>
    THEN [total_registros |-> Len(lista),
          distribuicao |->
             LET mc == most_common(Counter(lista))
             IN  [i \in 1..Len(mc) |->
                     [label |-> mc[i].label,
                      count |-> mc[i].count,
                      percentual |-> Round(mc[i].count * 1000, Len(lista)),
                      barra |-> (mc[i].count * 100) \div (2 * Len(lista))]],
          predominante |-> most_common(Counter(lista))[1].label]
    ELSE [nenhuma |-> nenhuma]

\* main_report.py:70-158: raises TypeError before finalizar (fim_analise is
\* None); erro is the exception raised, if any
gerar_relatorio_texto(r) ==
    IF r.fim_analise = NoneTime THEN [formato |-> "txt", erro |-> "TypeError"]
    ELSE IF percentual_deteccao(r).erro # None
    THEN [formato |-> "txt", erro |-> percentual_deteccao(r).erro]
    ELSE [formato |-> "txt",
          erro |-> None,
          informacoes_gerais |->
             [data_analise |-> r.inicio_analise,
              duracao_analise_segundos |-> r.fim_analise - r.inicio_analise],
          estatisticas_frames |->
             [total_frames_analisados |-> r.total_frames,
              frames_com_faces |-> r.frames_com_faces,
              percentual_deteccao |-> percentual_deteccao(r).valor],
          emocoes |->
             grupo_texto(r.emocoes_detectadas, "Nenhuma emocao detectada"),
          atividades |->
             grupo_texto(r.atividades_detectadas, "Nenhuma atividade detectada"),
          anomalias |->
             IF r.anomalias # << >>
             THEN [numero_anomalias |-> Len(r.anomalias),
                   detalhes |-> r.anomalias]
             ELSE [numero_anomalias |-> Len(r.anomalias),
                   nenhuma |-> "Nenhuma anomalia detectada no video"]]

RepIdle ==
    /\ report = VideoAnalysisReport(0)
    /\ now = 0
    /\ saida = NoReturn
    /\ n_calls = 0
    /\ n_face_calls = 0
    /\ n_emocao = 0
    /\ n_atividade = 0

\* process_video has not been called
VidIdle ==
    /\ pc = "idle"
    /\ gerar_relatorio = TRUE
    /\ frame_count = 0
    /\ detectado = frame_info_default
    /\ arquivos = << >>
    /\ fonte = << >>
    /\ lidos = 0
    /\ erro = NoError
    /\ processados = {}

\* the frame_info values detectar_anomalias is called with
FrameInfos ==
    [num_faces : 0..MaxFaces,
     emocao : {None, "Neutro", "Triste", "Raiva"},
     atividade : {None, "standing", "unknown", "Desconhecido"}]

\* the records of one kind in a returned list
OfTipo(lista, tipo) == SelectSeq(lista, LAMBDA a : a.tipo = tipo)
Frames(lista) == [i \in 1..Len(lista) |-> lista[i].frame]

DetIdle ==
    /\ frame_numero = 0
    /\ frame_info = frame_info_default
    /\ ret = << >>
    /\ run_clean = TRUE
    /\ unid_frames = << >>

InitAnomaly ==
    /\ DetIdle
    /\ RepIdle
    /\ VidIdle
    /\ face_lm = NoFace
    /\ emotion = None
    /\ pose_lm = NoPose
    /\ activity = None

\* main_report.py:290, 322-323: the next frame's detectar_anomalias call
DetectarAnomalias ==
    /\ frame_numero < MaxFrameNumero
    /\ \E info \in FrameInfos :
        /\ frame_numero' = frame_numero + 1
        /\ frame_info' = info
        /\ ret' = detectar_anomalias(info, frame_numero + 1)
        /\ run_clean' = (/\ run_clean
                         /\ info.atividade \in {"unknown", "Desconhecido"}
                         /\ info.num_faces <= 3
                         /\ info.emocao \notin {"Triste", "Raiva"})
        /\ unid_frames' = unid_frames
              \o Frames(OfTipo(ret', "Atividade Nao Identificada"))
    /\ UNCHANGED <<clsVars, repVars, histVars, vidVars>>

NextAnomaly == DetectarAnomalias
SpecAnomaly == InitAnomaly /\ [][NextAnomaly]_vars

\* ------------------------------ a session of calls on a VideoAnalysisReport
\* the labels registrar_frame is called with
EmocaoArgs == {None, "Feliz", "Triste"}
AtividadeArgs == {None, "standing"}
\* the records registrar_anomalia is called with: those detectar_anomalias
\* returns for a first frame of 4 sad faces (main_report.py:323-325)
AnomaliaArgs ==
    LET lista == detectar_anomalias(
                    [num_faces |-> 4, emocao |-> "Triste", atividade |-> None],
                    1)
    IN  {lista[i] : i \in 1..Len(lista)}

InitReport ==
    /\ RepIdle
    /\ DetIdle
    /\ VidIdle
    /\ face_lm = NoFace
    /\ emotion = None
    /\ pose_lm = NoPose
    /\ activity = None

RegistrarFrame ==
    /\ n_calls + Len(report.anomalias) < MaxWrites
    /\ \E tem_face \in BOOLEAN, emocao \in EmocaoArgs, atividade \in AtividadeArgs :
        /\ report' = registrar_frame(report, tem_face, emocao, atividade)
        /\ n_calls' = n_calls + 1
        /\ n_face_calls' = IF tem_face THEN n_face_calls + 1 ELSE n_face_calls
        /\ n_emocao' = IF emocao # None THEN n_emocao + 1 ELSE n_emocao
        /\ n_atividade' = IF atividade # None THEN n_atividade + 1 ELSE n_atividade
    /\ saida' = NoReturn
    /\ UNCHANGED <<now, clsVars, detVars, vidVars>>

RegistrarAnomalia ==
    /\ n_calls + Len(report.anomalias) < MaxWrites
    /\ \E a \in AnomaliaArgs, agora \in now..MaxTime :
        /\ now' = agora
        /\ report' = registrar_anomalia(report, a.tipo, a.descricao, a.frame, agora)
    /\ saida' = NoReturn
    /\ UNCHANGED <<histVars, clsVars, detVars, vidVars>>

Finalizar ==
    /\ \E agora \in now..MaxTime :
        /\ now' = agora
        /\ report' = finalizar(report, agora)
    /\ saida' = NoReturn
    /\ UNCHANGED <<histVars, clsVars, detVars, vidVars>>

GerarRelatorioTexto ==
    /\ saida' = gerar_relatorio_texto(report)
    /\ UNCHANGED <<report, now, histVars, clsVars, detVars, vidVars>>

GerarRelatorioJson ==
    /\ saida' = gerar_relatorio_json(report)
    /\ UNCHANGED <<report, now, histVars, clsVars, detVars, vidVars>>

NextReport ==
    \/ RegistrarFrame
    \/ RegistrarAnomalia
    \/ Finalizar
    \/ GerarRelatorioTexto
    \/ GerarRelatorioJson

SpecReport == InitReport /\ [][NextReport]_vars

\* ------------------------------------------- VideoAnalyzer.process_video
\* what the modules can see in a frame
Deteccoes ==
    [num_faces : 0..MaxFaces,
     emocao : {None, "Neutro", "Triste"},
     atividade : {None, "standing", "unknown"}]

\* the video sources: what each cap.read() finds, a frame or one it cannot
\* decode; after the last one the stream has ended
Fontes == UNION {[1..n -> {"frame", "ilegivel"}] : n \in 0..MaxVideoFrames}

\* main_report.py:300-302: the modules process_video calls before the one
\* of modality m
Antes(m) ==
    IF m = "face" THEN {}
    ELSE IF m = "emocao" THEN {"face"}
    ELSE {"face", "emocao"}

\* the detections of a frame on which only the modules of ms have run
DeteccoesDe(ms) ==
    {d \in Deteccoes :
        /\ ("face" \notin ms => d.num_faces = 0)
        /\ ("emocao" \notin ms => d.emocao = None)
        /\ ("atividade" \notin ms => d.atividade = None)}

\* main_report.py:315-317: the values recorded for frame number numero
valores_registrados(numero) ==
    [tem_face |-> (numero % 2 = 0), emocao |-> "Neutro", atividade |-> "standing"]

\* the frame_info holding the face count of what the modules saw
frame_info_update_detected(v) ==
    [num_faces |-> detectado.num_faces,
     emocao |-> v.emocao,
     atividade |-> v.atividade]

\* main_report.py:322: frame_info.update(...)
frame_info_update(v) ==
    [num_faces |-> IF v.tem_face THEN 1 ELSE 0,
     emocao |-> v.emocao,
     atividade |-> v.atividade]

\* main_report.py:324-325: the records of lista appended in turn
RECURSIVE registrar_anomalias(_, _, _)
registrar_anomalias(r, lista, agora) ==
    IF lista = << >> THEN r
    ELSE registrar_anomalias(
            registrar_anomalia(r, lista[1].tipo, lista[1].descricao,
                               lista[1].frame, agora),
            Tail(lista), agora)

InitVideo ==
    /\ RepIdle
    /\ DetIdle
    /\ face_lm = NoFace
    /\ emotion = None
    /\ pose_lm = NoPose
    /\ activity = None
    /\ pc = "open"
    /\ gerar_relatorio \in BOOLEAN
    /\ frame_count = 0
    /\ detectado = frame_info_default
    /\ arquivos = << >>
    /\ fonte \in Fontes
    /\ lidos = 0
    /\ erro = NoError
    /\ processados = {}

\* main_report.py:270-282: the source opens, or process_video returns
AbrirVideo ==
    /\ pc = "open"
    /\ \E aberto \in BOOLEAN :
        pc' = IF aberto THEN "read" ELSE "done"
    /\ UNCHANGED <<gerar_relatorio, frame_count, detectado, arquivos>>
    /\ UNCHANGED <<fonte, lidos, erro, processados>>
    /\ UNCHANGED <<clsVars, detVars, repVars, histVars>>

\* LerFrame counting two for every frame read
LerFrame_counting_two ==
    /\ pc = "read"
    /\ lidos' = lidos + 1
    /\ IF lidos' <= Len(fonte) /\ fonte[lidos'] = "frame"
       THEN /\ frame_count' = frame_count + 2
            /\ pc' = "process"
       ELSE /\ frame_count' = frame_count
            /\ pc' = "release"
    /\ processados' = {}
    /\ UNCHANGED <<gerar_relatorio, detectado, arquivos, fonte, erro>>
    /\ UNCHANGED <<clsVars, detVars, repVars, histVars>>

\* main_report.py:285-290: cap.read() returns the next frame of the source,
\* or ret = False at an undecodable frame as at the end of the stream, and
\* the loop is left
LerFrame ==
    /\ pc = "read"
    /\ lidos' = lidos + 1
    /\ IF lidos' <= Len(fonte) /\ fonte[lidos'] = "frame"
       THEN /\ frame_count' = frame_count + 1
            /\ pc' = "process"
       ELSE /\ frame_count' = frame_count
            /\ pc' = "release"
    /\ processados' = {}
    /\ UNCHANGED <<gerar_relatorio, detectado, arquivos, fonte, erro>>
    /\ UNCHANGED <<clsVars, detVars, repVars, histVars>>

\* main_report.py:292-310: the three modules annotate the frame in turn; an
\* exception raised by one of them (face_recognition.py:37,
\* emotion_detection.py:84, activity_recognition.py:101 call the detector
\* without a try) leaves process_video for the except clause of main
ProcessarFrame ==
    /\ pc = "process"
    /\ \E falha \in {None, "face", "emocao", "atividade"} :
        IF falha = None
        THEN /\ processados' = {"face", "emocao", "atividade"}
             /\ detectado' \in Deteccoes
             /\ erro' = erro
             /\ pc' = "record"
        ELSE /\ processados' = Antes(falha)
             /\ detectado' \in DeteccoesDe(Antes(falha))
             /\ erro' = [tipo |-> "Exception", origem |-> falha]
             /\ pc' = "except"
    /\ UNCHANGED <<gerar_relatorio, frame_count, arquivos, fonte, lidos>>
    /\ UNCHANGED <<clsVars, detVars, repVars, histVars>>

\* main_report.py:424-425: an interrupt signal during cap.read() or during
\* the modules' processing raises KeyboardInterrupt, which process_video
\* does not catch: main prints a message and the program ends
Interromper ==
    /\ pc \in {"read", "process"}
    /\ erro' = [tipo |-> "KeyboardInterrupt", origem |-> pc]
    /\ pc' = "except"
    /\ UNCHANGED <<gerar_relatorio, frame_count, detectado, arquivos>>
    /\ UNCHANGED <<fonte, lidos, processados>>
    /\ UNCHANGED <<clsVars, detVars, repVars, histVars>>

\* main_report.py:312-325
RegistrarNoRelatorio ==
    /\ pc = "record"
    /\ IF gerar_relatorio
       THEN LET v == valores_registrados(frame_count)
                info == frame_info_update(v)
                lista == detectar_anomalias(info, frame_count)
            IN  /\ \E agora \in now..MaxTime :
                    /\ now' = IF lista = << >> THEN now ELSE agora
                    /\ report' = registrar_anomalias(
                           registrar_frame(report, v.tem_face, v.emocao, v.atividade),
                           lista, agora)
                /\ frame_numero' = frame_count
                /\ frame_info' = info
                /\ ret' = lista
                /\ n_calls' = n_calls + 1
                /\ n_face_calls' = IF v.tem_face THEN n_face_calls + 1 ELSE n_face_calls
                /\ n_emocao' = IF v.emocao # None THEN n_emocao + 1 ELSE n_emocao
                /\ n_atividade' =
                       IF v.atividade # None THEN n_atividade + 1 ELSE n_atividade
                /\ UNCHANGED <<run_clean, unid_frames>>
       ELSE UNCHANGED <<report, now, detVars, histVars>>
    /\ pc' = "show"
    /\ UNCHANGED <<saida, gerar_relatorio, frame_count, detectado, arquivos>>
    /\ UNCHANGED <<fonte, lidos, erro, processados>>
    /\ UNCHANGED clsVars

\* main_report.py:327-333: imshow, and waitKey sees 'q' or not
MostrarFrame ==
    /\ pc = "show"
    /\ \E q \in BOOLEAN :
        pc' = IF q THEN "release" ELSE "read"
    /\ UNCHANGED <<gerar_relatorio, frame_count, detectado, arquivos>>
    /\ UNCHANGED <<fonte, lidos, erro, processados>>
    /\ UNCHANGED <<clsVars, detVars, repVars, histVars>>

\* main_report.py:335-340, 357
LiberarEFinalizar ==
    /\ pc = "release"
    /\ IF gerar_relatorio
       THEN /\ \E agora \in now..MaxTime :
                /\ now' = agora
                /\ report' = finalizar(report, agora)
            /\ pc' = "print"
       ELSE /\ UNCHANGED <<report, now>>
            /\ pc' = "done"
    /\ UNCHANGED <<saida, gerar_relatorio, frame_count, detectado, arquivos>>
    /\ UNCHANGED <<fonte, lidos, erro, processados>>
    /\ UNCHANGED <<clsVars, detVars, histVars>>

\* main_report.py:348
ImprimirRelatorio ==
    /\ pc = "print"
    /\ saida' = gerar_relatorio_texto(report)
    /\ pc' = "save_txt"
    /\ UNCHANGED <<report, now, gerar_relatorio, frame_count, detectado, arquivos>>
    /\ UNCHANGED <<fonte, lidos, erro, processados>>
    /\ UNCHANGED <<clsVars, detVars, histVars>>

\* main_report.py:351, 197-207: the text report is written, or makedirs or
\* open raises OSError, which neither salvar_relatorio nor process_video
\* catches: it reaches the except clause of main (426-429)
SalvarTxt ==
    /\ pc = "save_txt"
    /\ \E gravou \in BOOLEAN :
        IF gravou
        THEN /\ saida' = gerar_relatorio_texto(report)
             /\ arquivos' = Append(arquivos, saida')
             /\ erro' = erro
             /\ pc' = "save_json"
        ELSE /\ UNCHANGED <<saida, arquivos>>
             /\ erro' = [tipo |-> "Exception", origem |-> "txt"]
             /\ pc' = "except"
    /\ UNCHANGED <<report, now, gerar_relatorio, frame_count, detectado>>
    /\ UNCHANGED <<fonte, lidos, processados>>
    /\ UNCHANGED <<clsVars, detVars, histVars>>

\* main_report.py:352, 197-201, 208-212
SalvarJson ==
    /\ pc = "save_json"
    /\ \E gravou \in BOOLEAN :
        IF gravou
        THEN /\ saida' = gerar_relatorio_json(report)
             /\ arquivos' = Append(arquivos, saida')
             /\ erro' = erro
             /\ pc' = "done"
        ELSE /\ UNCHANGED <<saida, arquivos>>
             /\ erro' = [tipo |-> "Exception", origem |-> "json"]
             /\ pc' = "except"
    /\ UNCHANGED <<report, now, gerar_relatorio, frame_count, detectado>>
    /\ UNCHANGED <<fonte, lidos, processados>>
    /\ UNCHANGED <<clsVars, detVars, histVars>>

NextVideo ==
    \/ AbrirVideo
    \/ LerFrame
    \/ ProcessarFrame
    \/ Interromper
    \/ RegistrarNoRelatorio
    \/ MostrarFrame
    \/ LiberarEFinalizar
    \/ ImprimirRelatorio
    \/ SalvarTxt
    \/ SalvarJson

SpecVideo == InitVideo /\ [][NextVideo]_vars

\* ------------------------- a VideoAnalysisReport, used directly or by
\* process_video: the sessions of calls above and the process_video runs
InitSession ==
    \/ InitReport
    \/ InitVideo

\* the calls on a report used directly are made while process_video is not
\* running; the steps of process_video carry their own pc
NextSession ==
    \/ pc = "idle" /\ RegistrarFrame
    \/ pc = "idle" /\ RegistrarAnomalia
    \/ pc = "idle" /\ Finalizar
    \/ pc = "idle" /\ GerarRelatorioTexto
    \/ pc = "idle" /\ GerarRelatorioJson
    \/ AbrirVideo
    \/ LerFrame
    \/ ProcessarFrame
    \/ Interromper
    \/ RegistrarNoRelatorio
    \/ MostrarFrame
    \/ LiberarEFinalizar
    \/ ImprimirRelatorio
    \/ SalvarTxt
    \/ SalvarJson

SpecSession == InitSession /\ [][NextSession]_vars

\* ------------------------------------------- the classifiers, on all inputs
InitEmotion ==
    /\ face_lm \in FaceLandmarks
    /\ emotion = None
    /\ pose_lm = NoPose
    /\ activity = None
    /\ DetIdle
    /\ RepIdle
    /\ VidIdle

AnalyzeEmotion ==
    /\ emotion = None
    /\ emotion' = analyze_emotion(face_lm)
    /\ UNCHANGED <<face_lm, pose_lm, activity>>
    /\ UNCHANGED <<detVars, repVars, histVars, vidVars>>

NextEmotion == AnalyzeEmotion
SpecEmotion == InitEmotion /\ [][NextEmotion]_vars

InitActivity ==
    /\ pose_lm \in PoseLandmarks
    /\ activity = None
    /\ face_lm = NoFace
    /\ emotion = None
    /\ DetIdle
    /\ RepIdle
    /\ VidIdle

AnalyzeActivity ==
    /\ activity = None
    /\ activity' = analyze_activity(pose_lm)
    /\ UNCHANGED <<pose_lm, face_lm, emotion>>
    /\ UNCHANGED <<detVars, repVars, histVars, vidVars>>

NextActivity == AnalyzeActivity
SpecActivity == InitActivity /\ [][NextActivity]_vars

\* wrist raised above the shoulder line by the margin (wrist.y < shoulder_y - 0.1)
LeftRaised == pose_lm.left_wrist < shoulder_y(pose_lm) - 2
RightRaised == pose_lm.right_wrist < shoulder_y(pose_lm) - 2

\* C1: analyze_emotion returns the label of the half-open band mouth_height
\* falls in: below 0.02 Neutro, [0.02, 0.04) Feliz, [0.04, 0.06) Surpreso,
\* 0.06 and above Triste (2, 4 and 6 in units of 0.01).
C1_EmotionBands ==
    emotion # None =>
        LET h == mouth_height(face_lm)
        IN  /\ emotion \in {"Neutro", "Feliz", "Surpreso", "Triste"}
            /\ (h < 2 <=> emotion = "Neutro")
            /\ (2 <= h /\ h < 4 <=> emotion = "Feliz")
            /\ (4 <= h /\ h < 6 <=> emotion = "Surpreso")
            /\ (h >= 6 <=> emotion = "Triste")

\* a face whose mouth_height is exactly 0.02 has been classified Feliz
C1_Witness == mouth_height(face_lm) = 2 /\ emotion = "Feliz"

\* C2: Waving is returned only when a wrist that is raised by the margin is
\* itself above the nose; a raised wrist with no raised wrist above the nose
\* gives RaisingHand.
C2_WavingNeedsRaisedWristAboveNose ==
    activity # None =>
        LET leftBoth == LeftRaised /\ pose_lm.left_wrist < pose_lm.nose
            rightBoth == RightRaised /\ pose_lm.right_wrist < pose_lm.nose
        IN  /\ (activity = "waving" => leftBoth \/ rightBoth)
            /\ ((LeftRaised \/ RightRaised) /\ ~(leftBoth \/ rightBoth)
                    => activity = "raising_hand")

\* Waving was returned with the left wrist raised and the right wrist neither
\* raised nor above the nose
C2_Witness ==
    /\ activity = "waving"
    /\ LeftRaised
    /\ ~RightRaised
    /\ pose_lm.right_wrist >= pose_lm.nose

\* C3: with no wrist raised by the margin, torso_length below 0.2 gives
\* sitting, above 0.25 gives standing, and the closed interval [0.2, 0.25]
\* gives unknown (4 and 5 in units of 0.05).
C3_TorsoBands ==
    (activity # None /\ ~LeftRaised /\ ~RightRaised) =>
        LET t == torso_length(pose_lm)
        IN  /\ (t < 4 => activity = "sitting")
            /\ (t > 5 => activity = "standing")
            /\ (4 <= t /\ t <= 5 => activity = "unknown")

\* a pose with torso_length exactly 0.25 and no raised wrist was classified
C3_Witness ==
    /\ activity = "unknown"
    /\ torso_length(pose_lm) = 5
    /\ ~LeftRaised /\ ~RightRaised

\* C9: over a run of frames 1..N that are all of unknown activity and trigger
\* no other rule, an 'Atividade Nao Identificada' record is produced at the
\* multiples of 100 and at no other frame; after 250 frames that is exactly
\* the frames 100 and 200.
C9_UnknownThrottled ==
    run_clean =>
        /\ unid_frames = [i \in 1..(frame_numero \div 100) |-> 100 * i]
        /\ (frame_numero = 250 => unid_frames = <<100, 200>>)
        /\ (frame_numero % 100 = 0 /\ frame_numero > 0
                <=> OfTipo(ret, "Atividade Nao Identificada") # << >>)

\* 250 unknown frames in a row have been examined
C9_Witness ==
    /\ run_clean
    /\ frame_numero = 250
    /\ Len(unid_frames) = 2

\* C10: detectar_anomalias returns a 'Multiplas Faces' record exactly when
\* num_faces > 3, its description carrying the count, and an 'Emocao
\* Negativa' record exactly when the emotion is Triste or Raiva; at most one
\* of each, and every record carries the frame number of the call.
C10_FaceAndEmotionRules ==
    frame_numero > 0 =>
        LET faces == OfTipo(ret, "Multiplas Faces")
            negativas == OfTipo(ret, "Emocao Negativa")
        IN  /\ Len(faces) = (IF frame_info.num_faces > 3 THEN 1 ELSE 0)
            /\ \A i \in 1..Len(faces) :
                   faces[i].descricao[1] = frame_info.num_faces
            /\ Len(negativas) =
                   (IF frame_info.emocao \in {"Triste", "Raiva"} THEN 1 ELSE 0)
            /\ Len(OfTipo(ret, "Atividade Nao Identificada")) <= 1
            /\ Len(ret) <= 3
            /\ \A i \in 1..Len(ret) : ret[i].frame = frame_numero

\* a frame with 4 faces and the emotion Raiva was examined
C10_Witness ==
    /\ frame_info.num_faces = 4
    /\ frame_info.emocao = "Raiva"
    /\ Len(ret) >= 2
    /\ frame_numero > 1

\* the sum of the counts of a distribution
RECURSIVE SumValues(_)
SumValues(f) ==
    IF DOMAIN f = {} THEN 0
    ELSE LET l == CHOOSE x \in DOMAIN f : TRUE
         IN  f[l] + SumValues([x \in DOMAIN f \ {l} |-> f[x]])

\* C4: the counts of the emotion distribution of the structured report add
\* up to the number of recorded frames that had an emotion label, which is
\* also its total_registros; the same for the activities.  Frames without a
\* label add nothing.
C4_DistributionSums ==
    /\ SumValues(grupo_json(report.emocoes_detectadas).distribuicao) = n_emocao
    /\ SumValues(grupo_json(report.atividades_detectadas).distribuicao) = n_atividade
    /\ (saida.formato = "json" /\ saida.erro = None =>
            /\ SumValues(saida.emocoes.distribuicao) = n_emocao
            /\ saida.emocoes.total_registros = n_emocao
            /\ SumValues(saida.atividades.distribuicao) = n_atividade
            /\ saida.atividades.total_registros = n_atividade)

\* the structured report of two frames, one with an emotion label and one
\* without
C4_Witness ==
    /\ saida.formato = "json"
    /\ saida.erro = None
    /\ n_calls = 2
    /\ n_emocao = 1
    /\ n_atividade = 1

\* C5: total_frames is the number of registrar_frame calls made, and
\* frames_com_faces the number of them that had a face, so that
\* frames_com_faces <= total_frames.
C5_FrameCounters ==
    /\ report.total_frames = n_calls
    /\ report.frames_com_faces = n_face_calls
    /\ report.frames_com_faces <= report.total_frames

\* two frames recorded, one of them with a face
C5_Witness == n_calls = 2 /\ n_face_calls = 1 /\ report.total_frames = 2

\* C6: registrar_anomalia extends the log by one record at its end and
\* leaves the counters and the label lists alone; registrar_frame, finalizar
\* and the renderers leave the log alone; no step removes, reorders or
\* rewrites a record of the log.
C6_AnomalyLogAppendOnly ==
    [][ /\ (RegistrarAnomalia =>
               /\ Len(report'.anomalias) = Len(report.anomalias) + 1
               /\ SubSeq(report'.anomalias, 1, Len(report.anomalias))
                      = report.anomalias
               /\ report'.total_frames = report.total_frames
               /\ report'.frames_com_faces = report.frames_com_faces
               /\ report'.emocoes_detectadas = report.emocoes_detectadas
               /\ report'.atividades_detectadas = report.atividades_detectadas)
        /\ (RegistrarFrame \/ Finalizar \/ GerarRelatorioTexto \/ GerarRelatorioJson
               => report'.anomalias = report.anomalias)
        /\ Len(report'.anomalias) >= Len(report.anomalias)
        /\ SubSeq(report'.anomalias, 1, Len(report.anomalias)) = report.anomalias
      ]_vars

\* two different anomalies logged around a recorded frame, the session
\* finalized and rendered
C6_Witness ==
    /\ Len(report.anomalias) = 2
    /\ report.anomalias[1] # report.anomalias[2]
    /\ report.total_frames >= 1
    /\ saida.formato # None
    /\ saida.erro = None

\* C8: a session finalized without any recorded frame renders in both
\* formats without a division error: detection percentage 0, no predominant
\* emotion or activity in the structured report, the 'Nenhuma ... detectada'
\* markers in the text report.
C8_ZeroFrameRender ==
    (n_calls = 0 /\ report.fim_analise # NoneTime /\ saida.formato # None) =>
        /\ saida.erro = None
        /\ saida.estatisticas_frames.total_frames_analisados = 0
        /\ saida.estatisticas_frames.percentual_deteccao = 0
        /\ (saida.formato = "json" =>
                /\ saida.emocoes.predominante = None
                /\ saida.atividades.predominante = None)
        /\ (saida.formato = "txt" =>
                /\ saida.emocoes = [nenhuma |-> "Nenhuma emocao detectada"]
                /\ saida.atividades = [nenhuma |-> "Nenhuma atividade detectada"])

\* the structured report of a finalized session without frames
C8_Witness ==
    /\ n_calls = 0
    /\ report.fim_analise # NoneTime
    /\ saida.formato = "json"
    /\ saida.erro = None

\* C7: during process_video the records of the anomaly log are in
\* non-decreasing order of their frame number.
C7_AnomalyLogOrdered ==
    \A i, j \in 1..Len(report.anomalias) :
        i < j => report.anomalias[i].frame <= report.anomalias[j].frame

\* process_video records the same emotion and activity for every frame and
\* at most one face (main_report.py:315-317, 322), values no rule of
\* detectar_anomalias fires on: its anomaly log stays empty, and C7 has no
\* record to speak of.
VideoLogAlwaysEmpty == report.anomalias = << >> /\ ret = << >>

\* the number of occurrences of a label in a list of recorded labels, and
\* the position of its first occurrence
Ocorrencias(lista, l) == Cardinality({i \in 1..Len(lista) : lista[i] = l})
PrimeiraVez(lista, l) ==
    CHOOSE i \in 1..Len(lista) :
        lista[i] = l /\ \A j \in 1..(i - 1) : lista[j] # l

\* l is ranked before m: it occurs more often, or as often and it was
\* recorded first
RankedBefore(lista, l, m) ==
    \/ Ocorrencias(lista, l) > Ocorrencias(lista, m)
    \/ /\ Ocorrencias(lista, l) = Ocorrencias(lista, m)
       /\ PrimeiraVez(lista, l) < PrimeiraVez(lista, m)

\* the predominant label of both renderings is ranked before every other
\* label of the list, and the lines of the text section are every label
\* once, with its count, in ranking order
PredominanteERanking(lista) ==
    lista # << >> =>
        LET labels == {lista[i] : i \in 1..Len(lista)}
            linhas == grupo_texto(lista, None).distribuicao
        IN  /\ \A p \in {grupo_json(lista).predominante,
                        grupo_texto(lista, None).predominante} :
                /\ p \in labels
                /\ \A m \in labels \ {p} : RankedBefore(lista, p, m)
            /\ {linhas[i].label : i \in 1..Len(linhas)} = labels
            /\ Len(linhas) = Cardinality(labels)
            /\ \A i \in 1..Len(linhas) :
                   linhas[i].count = Ocorrencias(lista, linhas[i].label)
            /\ \A i, j \in 1..Len(linhas) :
                   i < j => RankedBefore(lista, linhas[i].label, linhas[j].label)

\* C11: for a non-empty list of recorded labels the predominant label has
\* the maximum count and, among the labels tied for it, was recorded first;
\* the text report lists the labels by descending count, ties in first-seen
\* order.  Three frames labelled Feliz, Feliz, Triste give the distribution
\* Feliz 2, Triste 1, the predominant label Feliz and total_frames 3.
C11_PredominantAndRanking ==
    /\ PredominanteERanking(report.emocoes_detectadas)
    /\ PredominanteERanking(report.atividades_detectadas)
    /\ (n_calls = 3 /\ report.emocoes_detectadas = <<"Feliz", "Feliz", "Triste">> =>
            /\ grupo_json(report.emocoes_detectadas).distribuicao
                   = [l \in {"Feliz", "Triste"} |-> IF l = "Feliz" THEN 2 ELSE 1]
            /\ grupo_json(report.emocoes_detectadas).predominante = "Feliz"
            /\ grupo_texto(report.emocoes_detectadas, None).predominante = "Feliz"
            /\ report.total_frames = 3)

\* the structured report of three frames labelled Feliz, Feliz, Triste
C11_Witness ==
    /\ n_calls = 3
    /\ report.emocoes_detectadas = <<"Feliz", "Feliz", "Triste">>
    /\ saida.formato = "json"
    /\ saida.erro = None
    /\ saida.emocoes.predominante = "Feliz"

\* two labels tied for the maximum, the one recorded first predominant
C11_TieWitness ==
    /\ report.emocoes_detectadas = <<"Triste", "Feliz">>
    /\ saida.formato = "txt"
    /\ saida.erro = None
    /\ saida.emocoes.predominante = "Triste"

\* a label section of the text report and the same group of the structured
\* report carry the same labels, counts and predominant label
MesmoGrupo(t, j) ==
    IF "nenhuma" \in DOMAIN t
    THEN /\ j.total_registros = 0
         /\ DOMAIN j.distribuicao = {}
         /\ j.predominante = None
    ELSE /\ t.total_registros = j.total_registros
         /\ {t.distribuicao[i].label : i \in 1..Len(t.distribuicao)}
                = DOMAIN j.distribuicao
         /\ \A i \in 1..Len(t.distribuicao) :
                t.distribuicao[i].count = j.distribuicao[t.distribuicao[i].label]
         /\ t.predominante = j.predominante

\* every percentage of a label section of the text report, printed with one
\* decimal, is the share of the label rounded to 2 decimal places
DuasCasas(t) ==
    "nenhuma" \notin DOMAIN t =>
        \A i \in 1..Len(t.distribuicao) :
            10 * t.distribuicao[i].percentual
                = Round(t.distribuicao[i].count * 10000, t.total_registros)

\* a group of the structured report with labels carries their percentages
TemPercentuais(j) ==
    DOMAIN j.distribuicao # {} => "percentuais" \in DOMAIN j

\* C12 as stated: of a finalized session the text and the structured report
\* present the same frame counts, detection percentage, per-label counts
\* and percentages, predominant labels and anomaly log, every percentage
\* rounded to 2 decimal places in both.
C12_RenderingsAgree ==
    report.fim_analise # NoneTime =>
        LET t == gerar_relatorio_texto(report)
            j == gerar_relatorio_json(report)
        IN  /\ t.erro = None
            /\ j.erro = None
            /\ t.estatisticas_frames = j.estatisticas_frames
            /\ MesmoGrupo(t.emocoes, j.emocoes)
            /\ MesmoGrupo(t.atividades, j.atividades)
            /\ t.anomalias.numero_anomalias = j.anomalias.numero_anomalias
            /\ ("detalhes" \in DOMAIN t.anomalias =>
                    t.anomalias.detalhes = j.anomalias.detalhes)
            /\ DuasCasas(t.emocoes)
            /\ DuasCasas(t.atividades)
            /\ TemPercentuais(j.emocoes)
            /\ TemPercentuais(j.atividades)

\* the part of C12 the code keeps: the same counts, detection percentage,
\* labels, predominant labels and anomaly log in both renderings
C12_SameCounts ==
    report.fim_analise # NoneTime =>
        LET t == gerar_relatorio_texto(report)
            j == gerar_relatorio_json(report)
        IN  /\ t.erro = None
            /\ j.erro = None
            /\ t.estatisticas_frames = j.estatisticas_frames
            /\ MesmoGrupo(t.emocoes, j.emocoes)
            /\ MesmoGrupo(t.atividades, j.atividades)
            /\ t.anomalias.numero_anomalias = j.anomalias.numero_anomalias
            /\ ("detalhes" \in DOMAIN t.anomalias =>
                    t.anomalias.detalhes = j.anomalias.detalhes)

\* the rounding part of C12 alone: the text report prints a share of 2 in 3
\* as 66.7, not 66.67
C12_TextTwoDecimals ==
    report.fim_analise # NoneTime =>
        DuasCasas(gerar_relatorio_texto(report).emocoes)

\* the program has ended: process_video has returned, or an exception has
\* reached the except clauses of main
Terminou == pc \in {"done", "except"}

\* C13 as stated: when the frame loop of a reporting session is left after
\* at least one frame was recorded, at the end of the stream, by the quit key or
\* by an interrupt signal during cap.read() or the modules' processing, and
\* no report file fails to be written, the program ends with the session
\* finalized and rendered, the rendered report showing the frames and the
\* anomalies recorded.
C13_CancelledSessionRendered ==
    (/\ Terminou
     /\ gerar_relatorio
     /\ n_calls >= 1
     /\ erro.tipo # "Exception") =>
        /\ report.fim_analise # NoneTime
        /\ saida.formato # None
        /\ saida.erro = None
        /\ saida.estatisticas_frames.total_frames_analisados = n_calls
        /\ saida.anomalias.numero_anomalias = Len(report.anomalias)

\* the part of C13 the code keeps: a loop left by the quit key or at the end
\* of the stream is followed by finalizar and the rendering of what was
\* recorded
C13_QuitKeyRendered ==
    (pc = "done" /\ gerar_relatorio /\ n_calls >= 1) =>
        /\ report.fim_analise # NoneTime
        /\ saida.formato # None
        /\ saida.erro = None
        /\ saida.estatisticas_frames.total_frames_analisados = n_calls
        /\ n_calls = frame_count
        /\ saida.anomalias.numero_anomalias = Len(report.anomalias)

\* C14 as stated: when the detector of one module raises on a frame, the
\* error does not leave process_video; the other two modules have processed
\* that frame, the frame is recorded, and the loop goes on.
C14_DetectorErrorIsolated ==
    erro.origem \in {"face", "emocao", "atividade"} =>
        /\ pc # "except"
        /\ (pc \in {"record", "except"} =>
                processados = {"face", "emocao", "atividade"} \ {erro.origem})
        /\ (Terminou /\ gerar_relatorio => n_calls = frame_count)

\* C15 as stated: an undecodable frame that is not the end of the stream
\* does not end the frame loop: the loop is never left on a frame that a
\* decodable frame follows unless that frame was decoded (and the quit key
\* pressed), and when the stream has been read to its end every decodable
\* frame of it has been recorded.
C15_UnreadableFrameSkipped ==
    /\ (/\ pc \in {"release", "print", "save_txt", "save_json", "done"}
        /\ lidos \in 1..Len(fonte)
        /\ \E i \in (lidos + 1)..Len(fonte) : fonte[i] = "frame")
           => fonte[lidos] = "frame"
    /\ (pc = "done" /\ gerar_relatorio /\ lidos > Len(fonte))
           => n_calls = Cardinality({i \in 1..Len(fonte) : fonte[i] = "frame"})

\* C16 as stated: once a frame has been recorded, the frame_info handed to
\* detectar_anomalias and the values handed to registrar_frame are what the
\* three modules saw in that frame: its face count, its emotion and its
\* activity, None or 0 where a module saw nothing.
C16_RecordedIsDetected ==
    (pc = "show" /\ gerar_relatorio) =>
        /\ frame_info = detectado
        /\ valores_registrados(frame_count) =
               [tem_face |-> (detectado.num_faces > 0),
                emocao |-> detectado.emocao,
                atividade |-> detectado.atividade]
        /\ (detectado.emocao = None => n_emocao < n_calls)
        /\ (detectado.atividade = None => n_atividade < n_calls)

\* C17: process_video numbers the frames 1, 2, 3, ... without gap or
\* repeat (the frame being processed is the lidos-th of the stream and
\* carries the number lidos; the k-th frame recorded was recorded under the
\* number k), and it works on one frame at a time: while a frame is being
\* processed or recorded every earlier frame has been recorded, and when
\* the next frame is acquired the current one has been recorded and the
\* anomaly records of its detectar_anomalias call are the end of the log.
C17_SequentialFrames ==
    /\ (pc \in {"process", "record", "show"} => frame_count = lidos)
    /\ (gerar_relatorio =>
            /\ report.total_frames = n_calls
            /\ (n_calls >= 1 => frame_numero = n_calls)
            /\ (pc \in {"process", "record"} => frame_count = n_calls + 1)
            /\ (pc \in {"read", "show", "release"} =>
                    /\ frame_count = n_calls
                    /\ Len(ret) <= Len(report.anomalias)
                    /\ \A i \in 1..Len(ret) :
                           LET a == report.anomalias[
                                       Len(report.anomalias) - Len(ret) + i]
                           IN  a.tipo = ret[i].tipo /\ a.frame = frame_count))

\* the third frame of a reporting session has been recorded
C17_Witness ==
    /\ pc = "show"
    /\ gerar_relatorio
    /\ frame_count = 3
    /\ frame_numero = 3
    /\ report.total_frames = 3

\* C18 as stated: once finalizar has been called no later call changes
\* total_frames, frames_com_faces, the recorded emotions and activities or
\* the anomaly log, and the end time does not change any more.
C18_FrozenAfterFinalizar ==
    [][ report.fim_analise # NoneTime =>
            /\ report'.total_frames = report.total_frames
            /\ report'.frames_com_faces = report.frames_com_faces
            /\ report'.emocoes_detectadas = report.emocoes_detectadas
            /\ report'.atividades_detectadas = report.atividades_detectadas
            /\ report'.anomalias = report.anomalias
            /\ report'.fim_analise = report.fim_analise
      ]_vars

\* the end-time part of C18 alone: a second finalizar leaves fim_analise as
\* the first one set it
C18_EndTimeSetOnce ==
    [][ report.fim_analise # NoneTime =>
            report'.fim_analise = report.fim_analise ]_vars

\* C19 as stated: when salvar_relatorio fails, the counters, label lists
\* and anomaly log are as they were, the report still renders as it did
\* before the save, and when it was the text report that failed the program
\* does not end without the structured report written.
C19_SaveFailureOnlyPersistence ==
    erro.origem \in {"txt", "json"} =>
        /\ report.total_frames = n_calls
        /\ report.frames_com_faces = n_face_calls
        /\ Len(report.emocoes_detectadas) = n_emocao
        /\ Len(report.atividades_detectadas) = n_atividade
        /\ gerar_relatorio_texto(report) = saida
        /\ gerar_relatorio_json(report).erro = None
        /\ (Terminou /\ erro.origem = "txt" =>
                \E i \in 1..Len(arquivos) : arquivos[i].formato = "json")

\* the part of C19 the code keeps: a failed save leaves the session as it
\* was, and it renders as before
C19_MemoryUntouched ==
    erro.origem \in {"txt", "json"} =>
        /\ report.total_frames = n_calls
        /\ report.frames_com_faces = n_face_calls
        /\ Len(report.emocoes_detectadas) = n_emocao
        /\ Len(report.atividades_detectadas) = n_atividade
        /\ gerar_relatorio_texto(report) = saida
        /\ gerar_relatorio_json(report).erro = None

\* C20: in a process_video session, whatever the modules see, the face
\* count handed to detectar_anomalias is 0 or 1: the 'Multiplas Faces' rule
\* never fires and no such record enters the anomaly log.
C20_NoMultipleFaces ==
    /\ frame_info.num_faces \in {0, 1}
    /\ OfTipo(ret, "Multiplas Faces") = << >>
    /\ OfTipo(report.anomalias, "Multiplas Faces") = << >>
    /\ (pc = "show" /\ gerar_relatorio =>
            frame_info.num_faces = (IF frame_count % 2 = 0 THEN 1 ELSE 0))

\* a frame in which the face module saw 4 faces has been recorded with one
C20_Witness ==
    /\ pc = "show"
    /\ gerar_relatorio
    /\ detectado.num_faces = 4
    /\ frame_numero = frame_count
    /\ frame_info.num_faces = 1

\* C21: a renderer called before finalizar fails, the end time being unset
\* (TypeError on fim_analise - inicio_analise), in the text as in the
\* structured format; and whenever process_video is about to render or save
\* the report, has rendered it or has written a file of it, finalizar has
\* been called on that report, so that no rendering of it failed.
C21_RenderNeedsFinalizar ==
    /\ (report.fim_analise = NoneTime =>
            /\ gerar_relatorio_texto(report).erro = "TypeError"
            /\ gerar_relatorio_json(report).erro = "TypeError"
            /\ (saida.formato # None => saida.erro = "TypeError"))
    /\ (pc # "idle" =>
            /\ (pc \in {"print", "save_txt", "save_json"} =>
                    report.fim_analise # NoneTime)
            /\ (saida.formato # None \/ arquivos # << >> =>
                    report.fim_analise # NoneTime)
            /\ (saida.formato # None => saida.erro = None)
            /\ \A i \in 1..Len(arquivos) : arquivos[i].erro = None)

\* the structured report was asked of a session with a recorded frame that
\* was not finalized, and the call failed
C21_Witness ==
    /\ pc = "idle"
    /\ n_calls >= 1
    /\ report.fim_analise = NoneTime
    /\ saida.formato = "json"
    /\ saida.erro = "TypeError"

\* process_video has recorded two frames, finalized the report and written
\* both files
C21_VideoWitness ==
    /\ pc = "done"
    /\ n_calls = 2
    /\ report.fim_analise # NoneTime
    /\ Len(arquivos) = 2
    /\ arquivos[1].formato = "txt"
    /\ arquivos[2].formato = "json"

====
